---- MODULE Spec2Model ----
(***************************************************************************)
(* GTFSProcessor (utils/gtfs_utils.py): construction from a feed, the     *)
(* stored table mapping gtfs_data, and the read operations over it.       *)
(*                                                                         *)
(* A stored table (a pandas DataFrame) is a record                         *)
(*     [kind |-> "df", cols |-> set of column names, rows |-> sequence]    *)
(* Python's None is the record None.  Identifiers are strings; the         *)
(* string NaN stands for a missing cell (pd.isna), NoArg for an argument   *)
(* left at its default None.  Dates are integers YYYYMMDD.                 *)
(***************************************************************************)
EXTENDS Integers, Sequences, FiniteSets, TLC

VARIABLES
    world_path,   \* what gtfs_path designates on disk: "zip", "dir", "file", "missing"
    world_feed,   \* what gk.read_feed returns for it (ParserRaises when it raises)
    pc,           \* position of the constructor / the life of the object
    feed,         \* self.feed
    gtfs_data,    \* self.gtfs_data: a function from the loaded table names
    result,       \* the last call and what it returned or raised
    threads,      \* the read calls in progress, one per calling thread
    gen,          \* generate_synthetic_demand.py: its loop and what it has written
    sim           \* simulate_demand.py: the joined rows and what it has written

vars == <<world_path, world_feed, pc, feed, gtfs_data, result, threads, gen, sim>>

-----------------------------------------------------------------------------
(* Values *)

None == [kind |-> "none"]
NoAttr == [kind |-> "noattr"]
ParserRaises == [kind |-> "parser_raises"]
NaN == "<NaN>"
NoArg == "<None>"

DF(cols, rows) == [kind |-> "df", cols |-> cols, rows |-> rows]
EmptyDataFrame == DF({}, <<>>)

IsDF(t) == t.kind = "df"

\* DataFrame.empty: some axis has length 0
Empty(t) == Len(t.rows) = 0 \/ t.cols = {}

\* Python truthiness of an (optional) string argument or cell
Truthy(x) == x # NoArg /\ x # ""

isna(x) == x = NaN

\* the outcome of a call: what was called with which arguments, and what it
\* returned or raised; NoCall before the first call
NoCall == [op |-> "none", args |-> <<>>, raised |-> FALSE, val |-> None]

\* a script that is not run, or not yet
NotStarted == [pc |-> "idle"]

Ok(v) == [raised |-> FALSE, val |-> v]
Raise(e) == [raised |-> TRUE, val |-> e]

required_files == <<"agency", "stops", "routes", "trips", "stop_times", "calendar">>
optional_files == <<"calendar_dates", "fare_attributes", "fare_rules",
                    "shapes", "frequencies", "transfers", "feed_info">>

Range(s) == {s[i] : i \in 1..Len(s)}
TableNames == Range(required_files) \cup Range(optional_files)

-----------------------------------------------------------------------------
(* Sequence helpers (boolean-mask row selection keeps the stored order) *)

RECURSIVE SelectRows(_, _, _)
SelectRows(rows, col, keep) ==
    IF rows = <<>> THEN <<>>
    ELSE IF Head(rows)[col] \in keep
         THEN <<Head(rows)>> \o SelectRows(Tail(rows), col, keep)
         ELSE SelectRows(Tail(rows), col, keep)

Column(t, col) == {t.rows[i][col] : i \in 1..Len(t.rows)}

\* df[df[col] == value]
FilterEq(t, col, value) == DF(t.cols, SelectRows(t.rows, col, {value}))

\* df[df[col].isin(values)]
FilterIsin(t, col, values) == DF(t.cols, SelectRows(t.rows, col, values))

\* self.gtfs_data.get(name, default)
DictGet(data, name, default) == IF name \in DOMAIN data THEN data[name] ELSE default

-----------------------------------------------------------------------------
(* Accessors.  Each returns Ok(value) or Raise(exception name). *)

get_routes(data) == Ok(DictGet(data, "routes", EmptyDataFrame))

get_stops(data) == Ok(DictGet(data, "stops", EmptyDataFrame))

\* The shape shared by get_trips, get_stop_times, get_shapes, get_calendar,
\* get_frequencies: "if <arg> and not t.empty: t = t[t[col] == <arg>]".
FilterStep(t, col, arg) ==
    IF ~Truthy(arg) THEN Ok(t)
    ELSE IF ~IsDF(t) THEN Raise("AttributeError")
    ELSE IF Empty(t) THEN Ok(t)
    ELSE IF col \notin t.cols THEN Raise("KeyError")
    ELSE Ok(FilterEq(t, col, arg))

get_trips(data, route_id) ==
    FilterStep(DictGet(data, "trips", EmptyDataFrame), "route_id", route_id)

get_stop_times(data, trip_id) ==
    FilterStep(DictGet(data, "stop_times", EmptyDataFrame), "trip_id", trip_id)

get_shapes(data, shape_id) ==
    FilterStep(DictGet(data, "shapes", EmptyDataFrame), "shape_id", shape_id)

get_calendar(data, service_id) ==
    FilterStep(DictGet(data, "calendar", EmptyDataFrame), "service_id", service_id)

get_frequencies(data, trip_id) ==
    FilterStep(DictGet(data, "frequencies", EmptyDataFrame), "trip_id", trip_id)

get_transfers(data, from_stop_id, to_stop_id) ==
    LET first == FilterStep(DictGet(data, "transfers", EmptyDataFrame),
                            "from_stop_id", from_stop_id)
    IN  IF first.raised THEN first
        ELSE FilterStep(first.val, "to_stop_id", to_stop_id)

-----------------------------------------------------------------------------
(* Derived queries *)

get_route_stops(data, route_id) ==
    LET trips == get_trips(data, route_id)
    IN  IF trips.raised THEN trips
        ELSE IF ~IsDF(trips.val) THEN Raise("AttributeError")
        ELSE IF Empty(trips.val) THEN Ok(EmptyDataFrame)
        ELSE IF "trip_id" \notin trips.val.cols THEN Raise("KeyError")
        ELSE
        LET trip_ids == Column(trips.val, "trip_id")
            stop_times == get_stop_times(data, NoArg).val
        IN  IF ~IsDF(stop_times) THEN Raise("TypeError")
            ELSE IF "trip_id" \notin stop_times.cols THEN Raise("KeyError")
            ELSE
            LET route_stop_times == FilterIsin(stop_times, "trip_id", trip_ids)
            IN  IF Empty(route_stop_times) THEN Ok(EmptyDataFrame)
                ELSE
                LET stops == get_stops(data).val
                IN  IF ~IsDF(stops) THEN Raise("TypeError")
                    ELSE IF "stop_id" \notin stops.cols THEN Raise("KeyError")
                    ELSE IF "stop_id" \notin route_stop_times.cols THEN Raise("KeyError")
                    ELSE Ok(FilterIsin(stops, "stop_id",
                                       Column(route_stop_times, "stop_id")))

\* DataFrame.sort_values(col): ascending; rows with equal keys keep their order
RECURSIVE InsertSorted(_, _, _)
InsertSorted(row, sorted, col) ==
    IF sorted = <<>> THEN <<row>>
    ELSE IF row[col] < Head(sorted)[col]
         THEN <<row>> \o sorted
         ELSE <<Head(sorted)>> \o InsertSorted(row, Tail(sorted), col)

RECURSIVE sort_values(_, _)
sort_values(rows, col) ==
    IF rows = <<>> THEN <<>>
    ELSE InsertSorted(rows[Len(rows)], sort_values(SubSeq(rows, 1, Len(rows) - 1), col), col)

LineString(coords) == [kind |-> "LineString", coords |-> coords]
Point(x, y) == [kind |-> "Point", coords |-> <<x, y>>]

\* the coordinate list built at lines 157-159
ShapeCoords(shapes) ==
    LET sorted == sort_values(shapes.rows, "shape_pt_sequence")
    IN  [i \in 1..Len(sorted) |-> <<sorted[i].shape_pt_lon, sorted[i].shape_pt_lat>>]

\* "LineString(coords) if len(coords) > 1 else None"
LineOrNone(coords) == IF Len(coords) > 1 THEN LineString(coords) ELSE None

get_route_geometry(data, route_id) ==
    LET trips == get_trips(data, route_id)
    IN  IF trips.raised THEN trips
        ELSE IF ~IsDF(trips.val) THEN Raise("AttributeError")
        ELSE IF Empty(trips.val) \/ "shape_id" \notin trips.val.cols THEN Ok(None)
        ELSE
        LET shape_id == trips.val.rows[1].shape_id
        IN  IF isna(shape_id) THEN Ok(None)
            ELSE
            LET shapes == get_shapes(data, shape_id)
            IN  IF shapes.raised THEN shapes
                ELSE IF ~IsDF(shapes.val) THEN Raise("AttributeError")
                ELSE IF Empty(shapes.val) THEN Ok(None)
                ELSE IF {"shape_pt_sequence", "shape_pt_lon", "shape_pt_lat"}
                            \subseteq shapes.val.cols
                     THEN Ok(LineOrNone(ShapeCoords(shapes.val)))
                     ELSE Raise("KeyError")

get_stop_geometry(data, stop_id) ==
    LET stops == get_stops(data).val
    IN  IF ~IsDF(stops) THEN Raise("AttributeError")
        ELSE IF Empty(stops) THEN Ok(None)
        ELSE IF "stop_id" \notin stops.cols THEN Raise("KeyError")
        ELSE
        LET stop == FilterEq(stops, "stop_id", stop_id)
        IN  IF Empty(stop) THEN Ok(None)
            ELSE IF {"stop_lon", "stop_lat"} \subseteq stops.cols
                 THEN Ok(Point(stop.rows[1].stop_lon, stop.rows[1].stop_lat))
                 ELSE Raise("KeyError")

\* Series.nunique(): missing cells are not counted (a missing cell of a numeric
\* column is the number NaNNumber, of an identifier column the string NaN)
NumericCols == {"direction_id", "wheelchair_accessible", "bikes_allowed", "route_type"}
NaNNumber == 0 - 1
nunique(t, col) ==
    Cardinality(Column(t, col) \ {IF col \in NumericCols THEN NaNNumber ELSE NaN})

\* (t[col] == 1).sum()
CountEq1(t, col) == Cardinality({i \in 1..Len(t.rows) : t.rows[i][col] = 1})

EmptyDict == [kind |-> "dict", empty |-> TRUE]

calculate_route_stats(data, route_id) ==
    LET trips == get_trips(data, route_id)
    IN  IF trips.raised THEN trips
        ELSE IF ~IsDF(trips.val) THEN Raise("AttributeError")
        ELSE IF Empty(trips.val) THEN Ok(EmptyDict)
        ELSE
        LET route_stops == get_route_stops(data, route_id)
            shapes == get_shapes(data, NoArg).val
            t == trips.val
        IN  IF route_stops.raised THEN route_stops
            ELSE IF "service_id" \notin t.cols THEN Raise("KeyError")
            ELSE IF ~IsDF(shapes) THEN Raise("AttributeError")
            ELSE Ok([kind |-> "dict", empty |-> FALSE,
                     route_id |-> route_id,
                     total_trips |-> Len(t.rows),
                     total_stops |-> Len(route_stops.val.rows),
                     directions |-> IF "direction_id" \in t.cols
                                    THEN nunique(t, "direction_id") ELSE 1,
                     service_ids |-> nunique(t, "service_id"),
                     has_shapes |-> ~Empty(shapes) /\ "shape_id" \in t.cols,
                     wheelchair_accessible_trips |->
                         IF "wheelchair_accessible" \in t.cols
                         THEN CountEq1(t, "wheelchair_accessible") ELSE 0,
                     bikes_allowed_trips |->
                         IF "bikes_allowed" \in t.cols
                         THEN CountEq1(t, "bikes_allowed") ELSE 0])

-----------------------------------------------------------------------------
(* Calendar dates: pd.to_datetime(x, format='%Y%m%d').date(), date.weekday(),
   date + one day, on integers YYYYMMDD *)

YearOf(d) == d \div 10000
MonthOf(d) == (d \div 100) % 100
DayOf(d) == d % 100
MkDate(y, m, d) == y * 10000 + m * 100 + d

IsLeap(y) == (y % 4 = 0 /\ y % 100 # 0) \/ y % 400 = 0

DaysInMonth(y, m) ==
    IF m = 2 THEN (IF IsLeap(y) THEN 29 ELSE 28)
    ELSE IF m \in {4, 6, 9, 11} THEN 30 ELSE 31

\* strptime accepts the string only when it names a day of the calendar
ValidDate(d) ==
    /\ YearOf(d) \in 1..9999
    /\ MonthOf(d) \in 1..12
    /\ DayOf(d) \in 1..DaysInMonth(YearOf(d), MonthOf(d))

\* days since 1970-01-01 (proleptic Gregorian)
DaysFromCivil(date) ==
    LET y == IF MonthOf(date) <= 2 THEN YearOf(date) - 1 ELSE YearOf(date)
        m == MonthOf(date)
        era == y \div 400
        yoe == y - era * 400
        doy == (153 * (IF m > 2 THEN m - 3 ELSE m + 9) + 2) \div 5 + DayOf(date) - 1
        doe == yoe * 365 + yoe \div 4 - yoe \div 100 + doy
    IN  era * 146097 + doe - 719468

\* date.weekday(): Monday = 0 ... Sunday = 6 (1970-01-01 was a Thursday)
weekday(date) == (DaysFromCivil(date) + 3) % 7

\* pd.Timedelta(days=1) + current_date
\* date.max: the day after it does not exist
MaxDate == 99991231

\* pd.Timedelta(days=1) + current_date, line 231
NextDay(date) ==
    LET y == YearOf(date)
        m == MonthOf(date)
        d == DayOf(date)
    IN  IF date = MaxDate THEN Raise("OverflowError")
        ELSE IF d < DaysInMonth(y, m) THEN Ok(MkDate(y, m, d + 1))
        ELSE IF m < 12 THEN Ok(MkDate(y, m + 1, 1))
        ELSE Ok(MkDate(y + 1, 1, 1))

days_map == <<"monday", "tuesday", "wednesday", "thursday",
              "friday", "saturday", "sunday">>

\* "if service.get(day, 0) == 1: active_days.append(weekday)"
active_days(service) ==
    {w \in 0..6 : days_map[w + 1] \in DOMAIN service /\ service[days_map[w + 1]] = 1}

\* the while loop of lines 227-231
RECURSIVE GenerateDates(_, _, _)
GenerateDates(current_date, end_date, active) ==
    IF current_date <= end_date
    THEN LET next == NextDay(current_date)
         IN  IF next.raised THEN next
             ELSE LET rest == GenerateDates(next.val, end_date, active)
                  IN  IF rest.raised THEN rest
                      ELSE Ok((IF weekday(current_date) \in active
                               THEN <<current_date>> ELSE <<>>) \o rest.val)
    ELSE Ok(<<>>)

get_service_dates(data, service_id) ==
    LET calendar == get_calendar(data, service_id)
    IN  IF calendar.raised THEN calendar
        ELSE IF ~IsDF(calendar.val) THEN Raise("AttributeError")
        ELSE IF Empty(calendar.val) THEN Ok(<<>>)
        ELSE
        LET service == calendar.val.rows[1]
        \* line 211 looks up and converts start_date before line 212 turns to
        \* end_date
        IN  IF "start_date" \notin calendar.val.cols THEN Raise("KeyError")
            ELSE IF ~ValidDate(service.start_date) THEN Raise("ValueError")
            ELSE IF "end_date" \notin calendar.val.cols THEN Raise("KeyError")
            ELSE IF ~ValidDate(service.end_date) THEN Raise("ValueError")
            ELSE GenerateDates(service.start_date, service.end_date,
                               active_days(service))

-----------------------------------------------------------------------------
(* Validation *)

ListLimit == 5

\* "list(missing)[:5]": a set is listed in an order the interpreter chooses, so
\* any ListLimit of the missing identifiers may be the ones shown.  The shown
\* identifiers are kept as a set (their order inside the string is not modelled).
Listings(missing) ==
    IF Cardinality(missing) <= ListLimit THEN {missing}
    ELSE {s \in SUBSET missing : Cardinality(s) = ListLimit}

\* f"Missing required file: {file_name}.txt"
MissingFileError(file_name) == [class |-> "Missing required file", file |-> file_name]

\* f"Trips reference missing routes: [...]" and the two others
ReferenceError(class, shown) == [class |-> class, shown |-> shown]

RECURSIVE RequiredFileErrors(_, _)
RequiredFileErrors(data, files) ==
    IF files = <<>> THEN <<>>
    ELSE (IF Head(files) \notin DOMAIN data \/ Empty(data[Head(files)])
          THEN <<MissingFileError(Head(files))>> ELSE <<>>)
         \o RequiredFileErrors(data, Tail(files))

FileCounts(data) ==
    [f \in {g \in Range(required_files) : g \in DOMAIN data /\ ~Empty(data[g])}
        |-> Len(data[f].rows)]

\* one check of _validate_data_consistency: the error lists it may append, or
\* the KeyError of set(t[col]) on a table without the column
ReferenceCheck(from, from_col, to, to_col, class) ==
    IF ~Empty(from) /\ ~Empty(to)
    THEN IF from_col \notin from.cols \/ to_col \notin to.cols
         THEN {Raise("KeyError")}
         ELSE LET missing == Column(from, from_col) \ Column(to, to_col)
              IN  IF missing # {}
                  THEN {Ok(<<ReferenceError(class, shown)>>) : shown \in Listings(missing)}
                  ELSE {Ok(<<>>)}
    ELSE {Ok(<<>>)}

\* the possible outcomes of _validate_data_consistency: the errors it appends,
\* or the exception of the first check that raises
validate_data_consistency(data) ==
    LET trips == get_trips(data, NoArg).val
        routes == get_routes(data).val
        stop_times == get_stop_times(data, NoArg).val
        stops == get_stops(data).val
    IN  {IF r.raised THEN r
         ELSE IF s.raised THEN s
         ELSE IF t.raised THEN t
         ELSE Ok(r.val \o s.val \o t.val) :
            r \in ReferenceCheck(trips, "route_id", routes, "route_id",
                                 "Trips reference missing routes"),
            s \in ReferenceCheck(stop_times, "stop_id", stops, "stop_id",
                                 "Stop times reference missing stops"),
            t \in ReferenceCheck(stop_times, "trip_id", trips, "trip_id",
                                 "Stop times reference missing trips")}

\* the set of results validate_gtfs_data may return (or the exception it raises)
validate_gtfs_data(data) ==
    IF \E f \in Range(required_files) : f \in DOMAIN data /\ ~IsDF(data[f])
    THEN {Raise("AttributeError")}
    ELSE
    LET file_errors == RequiredFileErrors(data, required_files)
        valid_files == file_errors = <<>>
        consistency == IF valid_files THEN validate_data_consistency(data)
                       ELSE {Ok(<<>>)}
    \* the consistency checks append to errors and leave 'valid' as it is
    IN  {IF c.raised THEN c
         ELSE Ok([valid |-> valid_files,
                  errors |-> file_errors \o c.val,
                  warnings |-> <<>>,
                  file_counts |-> FileCounts(data)]) : c \in consistency}

-----------------------------------------------------------------------------
(* Summary and export *)

counted_tables == <<"agency", "routes", "stops", "trips", "stop_times",
                    "shapes", "calendar">>

\* len(self.gtfs_data.get(name, []))
CountOf(data, name) == IF name \in DOMAIN data THEN Len(data[name].rows) ELSE 0

RECURSIVE unique(_, _, _)
unique(rows, col, seen) ==
    IF rows = <<>> THEN <<>>
    ELSE IF Head(rows)[col] \in seen THEN unique(Tail(rows), col, seen)
    ELSE <<Head(rows)[col]>> \o unique(Tail(rows), col, seen \cup {Head(rows)[col]})

get_gtfs_summary(data) ==
    IF \E f \in Range(counted_tables) : f \in DOMAIN data /\ ~IsDF(data[f])
    THEN Raise("TypeError")
    ELSE IF "feed_info" \in DOMAIN data /\ ~IsDF(data["feed_info"])
    THEN Raise("AttributeError")
    ELSE
    LET routes == get_routes(data).val
    IN  Ok([counts |-> [f \in Range(counted_tables) |-> CountOf(data, f)],
            has_frequencies |-> "frequencies" \in DOMAIN data,
            has_transfers |-> "transfers" \in DOMAIN data,
            has_feed_info |-> "feed_info" \in DOMAIN data,
            route_types |-> IF ~Empty(routes) /\ "route_type" \in routes.cols
                            THEN unique(routes.rows, "route_type", {}) ELSE <<>>,
            feed_info |-> IF "feed_info" \in DOMAIN data /\ ~Empty(data["feed_info"])
                          THEN data["feed_info"].rows[1] ELSE EmptyDict])

\* the body is "pass"
export_filtered_gtfs(data, output_path, route_ids) == Ok(None)

-----------------------------------------------------------------------------
(* Construction *)

\* hasattr(self.feed, file_name)
hasattr(fd, file_name) == fd[file_name] # NoAttr

\* the loops of _load_required_files / _load_optional_files
RECURSIVE LoadFiles(_, _, _)
LoadFiles(data, fd, files) ==
    IF files = <<>> THEN data
    ELSE LoadFiles(IF hasattr(fd, Head(files))
                   THEN (Head(files) :> fd[Head(files)]) @@ data
                   ELSE data,
                   fd, Tail(files))

\* os.path.isfile(p) and p.endswith('.zip'), or os.path.isdir(p)
PathAccepted(path) == path \in {"zip", "dir"}

\* load_gtfs_data without the "else: raise ValueError" branch
ReadFeedAnyPath ==
    /\ pc = "init"
    /\ IF world_feed # ParserRaises
       THEN feed' = world_feed /\ pc' = "load_required"
       ELSE feed' = feed /\ pc' = "failed"
    /\ UNCHANGED <<world_path, world_feed, gtfs_data, result, threads, gen, sim>>

\* load_gtfs_data, lines 31-39 and 47-49: read the feed or raise to the caller
ReadFeed ==
    /\ pc = "init"
    /\ IF PathAccepted(world_path) /\ world_feed # ParserRaises
       THEN feed' = world_feed /\ pc' = "load_required"
       ELSE feed' = feed /\ pc' = "failed"
    /\ UNCHANGED <<world_path, world_feed, gtfs_data, result, threads, gen, sim>>

LoadRequiredFiles ==
    /\ pc = "load_required"
    /\ gtfs_data' = LoadFiles(gtfs_data, feed, required_files)
    /\ pc' = "load_optional"
    /\ UNCHANGED <<world_path, world_feed, feed, result, threads, gen, sim>>

LoadOptionalFiles ==
    /\ pc = "load_optional"
    /\ gtfs_data' = LoadFiles(gtfs_data, feed, optional_files)
    /\ pc' = "ready"
    /\ UNCHANGED <<world_path, world_feed, feed, result, threads, gen, sim>>

-----------------------------------------------------------------------------
(* Calls on the constructed object *)

RouteIds == {"", "R1", "R2", "RX"}
TripIds == {"", "T1", "TX"}
ShapeIds == {"", "SH1", "SHX"}
ServiceIds == {"", "WK", "SX"}
StopIds == {"", "S1", "SX"}

Optional(ids) == ids \cup {NoArg}

Call(op, args, r) == [op |-> op, args |-> args, raised |-> r.raised, val |-> r.val]

Returns(r) ==
    /\ pc = "ready"
    /\ result' = r
    /\ gtfs_data' = gtfs_data
    /\ UNCHANGED <<world_path, world_feed, pc, feed, threads, gen, sim>>

GetRoutes == Returns(Call("get_routes", <<>>, get_routes(gtfs_data)))

GetStops == Returns(Call("get_stops", <<>>, get_stops(gtfs_data)))

\* get_trips keeping the filtered table: self.gtfs_data['trips'] = trips
GetTripsInPlace ==
    \E route_id \in Optional(RouteIds) :
        LET r == get_trips(gtfs_data, route_id)
        IN  /\ pc = "ready"
            /\ result' = Call("get_trips", <<route_id>>, r)
            /\ gtfs_data' = IF r.raised THEN gtfs_data
                            ELSE ("trips" :> r.val) @@ gtfs_data
            /\ UNCHANGED <<world_path, world_feed, pc, feed, threads, gen, sim>>

GetTrips ==
    \E route_id \in Optional(RouteIds) :
        Returns(Call("get_trips", <<route_id>>, get_trips(gtfs_data, route_id)))

GetStopTimes ==
    \E trip_id \in Optional(TripIds) :
        Returns(Call("get_stop_times", <<trip_id>>, get_stop_times(gtfs_data, trip_id)))

GetRouteStops ==
    \E route_id \in RouteIds :
        Returns(Call("get_route_stops", <<route_id>>, get_route_stops(gtfs_data, route_id)))

GetShapes ==
    \E shape_id \in Optional(ShapeIds) :
        Returns(Call("get_shapes", <<shape_id>>, get_shapes(gtfs_data, shape_id)))

GetCalendar ==
    \E service_id \in Optional(ServiceIds) :
        Returns(Call("get_calendar", <<service_id>>, get_calendar(gtfs_data, service_id)))

GetFrequencies ==
    \E trip_id \in Optional(TripIds) :
        Returns(Call("get_frequencies", <<trip_id>>, get_frequencies(gtfs_data, trip_id)))

GetTransfers ==
    \E from_stop_id \in {NoArg, "", "S1"}, to_stop_id \in {NoArg, "", "S2"} :
        Returns(Call("get_transfers", <<from_stop_id, to_stop_id>>,
                     get_transfers(gtfs_data, from_stop_id, to_stop_id)))

GetRouteGeometry ==
    \E route_id \in RouteIds :
        Returns(Call("get_route_geometry", <<route_id>>,
                     get_route_geometry(gtfs_data, route_id)))

GetStopGeometry ==
    \E stop_id \in StopIds :
        Returns(Call("get_stop_geometry", <<stop_id>>,
                     get_stop_geometry(gtfs_data, stop_id)))

CalculateRouteStats ==
    \E route_id \in RouteIds :
        Returns(Call("calculate_route_stats", <<route_id>>,
                     calculate_route_stats(gtfs_data, route_id)))

GetServiceDates ==
    \E service_id \in ServiceIds :
        Returns(Call("get_service_dates", <<service_id>>,
                     get_service_dates(gtfs_data, service_id)))

ValidateGtfsData ==
    \E r \in validate_gtfs_data(gtfs_data) :
        Returns(Call("validate_gtfs_data", <<>>, r))

GetGtfsSummary == Returns(Call("get_gtfs_summary", <<>>, get_gtfs_summary(gtfs_data)))

ExportFilteredGtfs ==
    Returns(Call("export_filtered_gtfs", <<"out", "R1">>,
                 export_filtered_gtfs(gtfs_data, "out", <<"R1">>)))

Next ==
    \/ ReadFeed
    \/ LoadRequiredFiles
    \/ LoadOptionalFiles
    \/ GetRoutes
    \/ GetStops
    \/ GetTrips
    \/ GetStopTimes
    \/ GetRouteStops
    \/ GetShapes
    \/ GetCalendar
    \/ GetFrequencies
    \/ GetTransfers
    \/ GetRouteGeometry
    \/ GetStopGeometry
    \/ CalculateRouteStats
    \/ GetServiceDates
    \/ ValidateGtfsData
    \/ GetGtfsSummary
    \/ ExportFilteredGtfs

-----------------------------------------------------------------------------
(* Feeds: what the parser may hand to the constructor *)

SeqsUpTo(S, n) == UNION {[1..k -> S] : k \in 0..n}

RouteCols == {"route_id", "route_type"}
StopCols == {"stop_id", "stop_lon", "stop_lat"}
TripCols == {"trip_id", "route_id", "service_id", "shape_id", "direction_id",
             "wheelchair_accessible", "bikes_allowed"}
StopTimeCols == {"trip_id", "stop_id"}
CalendarCols == {"service_id", "start_date", "end_date"} \cup Range(days_map)
ShapeCols == {"shape_id", "shape_pt_sequence", "shape_pt_lon", "shape_pt_lat"}

RouteRow(route_id) == [route_id |-> route_id, route_type |-> 3]

StopNumber(stop_id) ==
    CASE stop_id = "S1" -> 1 [] stop_id = "S2" -> 2 [] stop_id = "S3" -> 3
      [] stop_id = "S4" -> 4 [] stop_id = "S5" -> 5 [] stop_id = "S6" -> 6
      [] stop_id = "S7" -> 7 [] stop_id = "S8" -> 8 [] stop_id = "S9" -> 9
      [] OTHER -> 0

StopRow(stop_id) ==
    [stop_id |-> stop_id, stop_lon |-> StopNumber(stop_id),
     stop_lat |-> 50 + StopNumber(stop_id)]

TripRow(trip_id, route_id, service_id, shape_id) ==
    [trip_id |-> trip_id, route_id |-> route_id, service_id |-> service_id,
     shape_id |-> shape_id, direction_id |-> 0,
     wheelchair_accessible |-> 1, bikes_allowed |-> 0]

StopTimeRow(trip_id, stop_id) == [trip_id |-> trip_id, stop_id |-> stop_id]

\* days: the set of weekday numbers (0 = monday) whose flag is 1
CalendarRow(service_id, start_date, end_date, days) ==
    [service_id |-> service_id, start_date |-> start_date, end_date |-> end_date,
     monday |-> IF 0 \in days THEN 1 ELSE 0,
     tuesday |-> IF 1 \in days THEN 1 ELSE 0,
     wednesday |-> IF 2 \in days THEN 1 ELSE 0,
     thursday |-> IF 3 \in days THEN 1 ELSE 0,
     friday |-> IF 4 \in days THEN 1 ELSE 0,
     saturday |-> IF 5 \in days THEN 1 ELSE 0,
     sunday |-> IF 6 \in days THEN 1 ELSE 0]

ShapeRow(shape_id, seq, lon, lat) ==
    [shape_id |-> shape_id, shape_pt_sequence |-> seq,
     shape_pt_lon |-> lon, shape_pt_lat |-> lat]

SampleFeed ==
    [f \in TableNames |->
        CASE f = "agency" -> DF({"agency_id"}, <<[agency_id |-> "A1"]>>)
          [] f = "routes" -> DF(RouteCols, <<RouteRow("R1"), RouteRow("R2")>>)
          [] f = "stops" -> DF(StopCols, <<StopRow("S1"), StopRow("S2")>>)
          [] f = "trips" ->
                DF(TripCols, <<TripRow("T1", "R1", "WK", "SH1"),
                               TripRow("T2", "R1", "WE", "SH1"),
                               TripRow("T3", "R2", "WK", NaN)>>)
          [] f = "stop_times" ->
                DF(StopTimeCols, <<StopTimeRow("T1", "S1"), StopTimeRow("T1", "S2"),
                                   StopTimeRow("T2", "S1"), StopTimeRow("T3", "S2")>>)
          [] f = "calendar" ->
                DF(CalendarCols,
                   <<CalendarRow("WK", 20240101, 20240114, {0, 1, 2, 3, 4}),
                     CalendarRow("WE", 20240101, 20240114, {5, 6})>>)
          [] f = "shapes" ->
                DF(ShapeCols, <<ShapeRow("SH1", 2, 12, 62), ShapeRow("SH1", 1, 11, 61),
                                ShapeRow("SH2", 1, 21, 71), ShapeRow("SH2", 2, 22, 72)>>)
          [] f = "frequencies" ->
                DF({"trip_id", "headway_secs"},
                   <<[trip_id |-> "T1", headway_secs |-> 600],
                     [trip_id |-> "T3", headway_secs |-> 900]>>)
          [] f = "transfers" ->
                DF({"from_stop_id", "to_stop_id"},
                   <<[from_stop_id |-> "S1", to_stop_id |-> "S2"],
                     [from_stop_id |-> "S2", to_stop_id |-> "S1"],
                     [from_stop_id |-> "S1", to_stop_id |-> "S1"]>>)
          [] f = "feed_info" ->
                DF({"feed_publisher_name"}, <<[feed_publisher_name |-> "GH"]>>)
          [] OTHER -> DF({"id"}, <<[id |-> f]>>)]

\* the sample feed with the tables of `over` replaced
FeedWith(over) ==
    [f \in TableNames |-> IF f \in DOMAIN over THEN over[f] ELSE SampleFeed[f]]

MaxMissing == 1

\* what a feed may hold for a table it has no rows for: no attribute at all, an
\* attribute set to None, or a table with its header and no row
MissingForms == {"noattr", "none", "header"}

MissingTable(f, form) ==
    CASE form = "noattr" -> NoAttr
      [] form = "none" -> None
      [] form = "header" -> DF(SampleFeed[f].cols, <<>>)

\* feeds in which at most MaxMissing tables are missing, in one of the given forms
FeedsWithMissing(allowed) ==
    UNION {{[f \in TableNames |->
                IF f \in gone THEN MissingTable(f, forms[f]) ELSE SampleFeed[f]] :
                    forms \in [gone -> allowed]} :
           gone \in {g \in SUBSET TableNames : Cardinality(g) <= MaxMissing}}

InitWith(feeds) ==
    /\ \/ world_path = "dir" /\ world_feed \in feeds \cup {ParserRaises}
       \/ world_path \in {"zip", "file", "missing"}
            /\ world_feed \in {SampleFeed, ParserRaises}
    /\ pc = "init"
    /\ feed = None
    /\ gtfs_data = <<>>
    /\ result = NoCall
    /\ threads = <<>>
    /\ gen = NotStarted
    /\ sim = NotStarted

Init == InitWith(FeedsWithMissing(MissingForms))

Spec == Init /\ [][Next]_vars

\* the feeds whose every attribute is a table
InitTables == InitWith(FeedsWithMissing({"noattr", "header"}))

SpecTables == InitTables /\ [][Next]_vars

-----------------------------------------------------------------------------
(* Feeds for the reference checks of validate_gtfs_data *)

NumStopIds == 8

StopNames == <<"S1", "S2", "S3", "S4", "S5", "S6", "S7", "S8", "S9">>

\* the runs of consecutive stop names among the first NumStopIds
ReferencedStops ==
    {{StopNames[i] : i \in a..b} : a \in 1..NumStopIds, b \in 1..NumStopIds} \ {{}}

\* one stop_time per referenced stop, all of trip trip_id
StopTimesOf(stop_ids, trip_id) ==
    LET ids == SelectSeq(StopNames, LAMBDA x : x \in stop_ids)
    IN  DF(StopTimeCols, [i \in 1..Len(ids) |-> StopTimeRow(trip_id, ids[i])])

\* the stops table holds S1 and S2; stop_times reference a non-empty run of
\* stops, through a trip that exists (T1) or not (T9); the trips run on routes
\* that exist or on a route that does not (RZ)
FeedsWithReferences ==
    {FeedWith([stop_times |-> StopTimesOf(stop_ids, trip_id),
               trips |-> DF(TripCols, <<TripRow("T1", route_id, "WK", "SH1"),
                                        TripRow("T2", "R1", "WE", NaN)>>)]) :
        stop_ids \in ReferencedStops,
        trip_id \in {"T1", "T9"},
        route_id \in {"R1", "RZ"}}

\* feeds in which a table has rows but not the identifier column a check reads
FeedsLackingIdColumn ==
    {FeedWith([stop_times |-> DF({"trip_id"}, <<[trip_id |-> "T1"]>>)]),
     FeedWith([stop_times |-> DF({"stop_id"}, <<[stop_id |-> "S1"]>>)]),
     FeedWith([stops |-> DF({"stop_lon", "stop_lat"},
                            <<[stop_lon |-> 1, stop_lat |-> 2]>>)]),
     FeedWith([routes |-> DF({"route_short_name"}, <<[route_short_name |-> "1"]>>)])}

InitValidate == InitWith(FeedsWithReferences \cup FeedsLackingIdColumn)

SpecValidate == InitValidate /\ [][Next]_vars

\* some of those feeds, with at most MaxMissing required tables missing in one
\* of the forms
FeedsWithReferencesMissing ==
    UNION {{[f \in TableNames |->
                IF f \in gone THEN MissingTable(f, forms[f]) ELSE base[f]] :
                    forms \in [gone -> MissingForms],
                    base \in {FeedWith([stop_times |-> StopTimesOf(stop_ids, trip_id),
                                        trips |-> DF(TripCols,
                                                     <<TripRow("T1", route_id, "WK", "SH1")>>)]) :
                                 stop_ids \in {{"S1"}, {"S1", "S3"}},
                                 trip_id \in {"T1", "T9"},
                                 route_id \in {"R1", "RZ"}}} :
           gone \in {g \in SUBSET Range(required_files) : Cardinality(g) <= MaxMissing}}

InitValidateMissing == InitWith(FeedsWithReferencesMissing)

SpecValidateMissing == InitValidateMissing /\ [][Next]_vars

-----------------------------------------------------------------------------
(* Feeds for the route queries *)

MaxStopTimes == 2

TripTables ==
    {DF(TripCols, <<>>)}
    \cup {DF(TripCols, <<TripRow(t, r, "WK", NaN)>>) : t \in {"T1"}, r \in {"R1", "R2"}}
    \cup {DF(TripCols, <<TripRow("T1", r1, "WK", NaN), TripRow("T2", r2, "WE", NaN)>>) :
             r1 \in {"R1", "R2"}, r2 \in {"R1", "R2"}}

StopTimeTables ==
    {DF(StopTimeCols, rows) :
        rows \in SeqsUpTo({StopTimeRow(t, st) : t \in {"T1", "T2"}, st \in {"S1", "S2"}},
                          MaxStopTimes)}

\* stops.txt may list a stop twice: nothing in the constructor rejects it
StopTables ==
    {DF(StopCols, rows) :
        rows \in {<<>>, <<StopRow("S1")>>, <<StopRow("S1"), StopRow("S2")>>,
                  <<StopRow("S1"), StopRow("S1")>>}}

FeedsWithStops ==
    {FeedWith([trips |-> tr, stop_times |-> st, stops |-> sp]) :
        tr \in TripTables, st \in StopTimeTables, sp \in StopTables}

InitStops == InitWith(FeedsWithStops)

SpecStops == InitStops /\ [][Next]_vars

-----------------------------------------------------------------------------
(* Feeds for the geometry queries *)

MaxTrips == 2
MaxShapePts == 2

TripNames == <<"T1", "T2", "T3", "T4">>

\* trips named by their position, each on a route and with a shape_id cell
GeometryTrips ==
    {DF(TripCols, [i \in 1..Len(cells) |->
                      TripRow(TripNames[i], cells[i][1], "WK", cells[i][2])]) :
        cells \in SeqsUpTo({"R1", "R2"} \X {"", "SH1", NaN}, MaxTrips)}

\* the same trips read from a trips.txt that has no shape_id column
WithoutShapeId(row) == [c \in DOMAIN row \ {"shape_id"} |-> row[c]]

GeometryTripsNoColumn ==
    {DF(TripCols \ {"shape_id"},
        [i \in 1..Len(routes) |->
            WithoutShapeId(TripRow(TripNames[i], routes[i], "WK", NaN))]) :
        routes \in SeqsUpTo({"R1", "R2"}, MaxTrips) \ {<<>>}}

ShapeCode(shape_id) == IF shape_id = "SH1" THEN 1 ELSE 0

\* shape points: every point of a table has its own coordinates
GeometryShapes ==
    {DF(ShapeCols, [i \in 1..Len(cells) |->
                       ShapeRow(cells[i][1], cells[i][2],
                                10 * ShapeCode(cells[i][1]) + i, 60 + cells[i][2])]) :
        cells \in SeqsUpTo({"", "SH1"} \X {1, 2}, MaxShapePts)}

FeedsWithShapes ==
    {FeedWith([trips |-> tr, shapes |-> sh]) :
        tr \in GeometryTrips \cup GeometryTripsNoColumn,
        sh \in GeometryShapes \cup {NoAttr}}

InitGeometry == InitWith(FeedsWithShapes)

SpecGeometry == InitGeometry /\ [][Next]_vars

-----------------------------------------------------------------------------
(* Feeds for the service calendar *)

MaxCalendarRows == 2

\* two weeks; a leap-year February into March; a year's end; one day; an end
\* before the start; a day that is not in the calendar
DateRanges ==
    {<<20240101, 20240114>>, <<20240226, 20240303>>, <<20231230, 20240102>>,
     <<20240108, 20240108>>, <<20240110, 20240105>>, <<20240230, 20240302>>}

DayPatterns == {{0}, {5, 6}, {}}

CalendarTables ==
    {DF(CalendarCols, rows) :
        rows \in SeqsUpTo({CalendarRow(sv, rg[1], rg[2], days) :
                              sv \in {"WK", "WE"}, rg \in DateRanges, days \in DayPatterns},
                          MaxCalendarRows)}

\* calendars without the end_date column, the start_date a day or no day
CalendarTablesNoEnd ==
    {DF({"service_id", "start_date"}, <<[service_id |-> "WK", start_date |-> d]>>) :
        d \in {20240101, 20240230}}

\* a service that runs to the last day there is
CalendarTablesToMaxDate ==
    {DF(CalendarCols, <<CalendarRow("WK", 99991230, MaxDate, {0, 1, 2, 3, 4, 5, 6})>>)}

FeedsWithCalendars ==
    {FeedWith([calendar |-> c]) :
        c \in CalendarTables \cup CalendarTablesNoEnd \cup CalendarTablesToMaxDate}

InitCalendar == InitWith(FeedsWithCalendars)

SpecCalendar == InitCalendar /\ [][Next]_vars

-----------------------------------------------------------------------------
(* Feeds for the route statistics *)

MaxStatTrips == 2

\* route, service, shape, direction, wheelchair_accessible, bikes_allowed of a
\* trip; SH9 is a shape the shapes table does not hold
StatCells ==
    {<<"R1", "WK", "SH1", 0, 1, 0>>, <<"R1", "WE", "SH1", 1, 0, 1>>,
     <<"R1", "WK", NaN, 0, 1, 1>>, <<"R1", NaN, "SH9", NaNNumber, 2, 0>>,
     <<"R2", "WK", "SH1", 0, 1, 0>>, <<"R2", "WE", NaN, 1, 0, 0>>}

StatTripRow(trip_id, cell) ==
    [trip_id |-> trip_id, route_id |-> cell[1], service_id |-> cell[2],
     shape_id |-> cell[3], direction_id |-> cell[4],
     wheelchair_accessible |-> cell[5], bikes_allowed |-> cell[6]]

\* the optional columns a trips.txt may come without
DroppedColumns ==
    {{}, {"direction_id"}, {"wheelchair_accessible"}, {"bikes_allowed"}, {"shape_id"}}

Without(row, cols) == [c \in DOMAIN row \ cols |-> row[c]]

\* trips named by their position, read from a trips.txt without some column
StatTrips ==
    {DF(TripCols \ dropped,
        [i \in 1..Len(cells) |-> Without(StatTripRow(TripNames[i], cells[i]), dropped)]) :
        cells \in SeqsUpTo(StatCells, MaxStatTrips), dropped \in DroppedColumns}

\* the shapes of the sample feed, or a shapes.txt with no point
StatShapes == {SampleFeed["shapes"], DF(ShapeCols, <<>>)}

FeedsWithStats == {FeedWith([trips |-> tr, shapes |-> sh]) : tr \in StatTrips, sh \in StatShapes}

InitStats == InitWith(FeedsWithStats)

SpecStats == InitStats /\ [][Next]_vars

-----------------------------------------------------------------------------
(* Construction: failure and missing tables *)

ConstructionFails == ~PathAccepted(world_path) \/ world_feed = ParserRaises

\* what a completed construction stores: every table the feed has an attribute for
LoadedNames == {f \in TableNames : world_feed[f] # NoAttr}

\* C7: a path that is neither an existing zip file nor an existing directory, or
\* a parser that raises, makes construction fail: the constructor never gets to
\* storing a table (gtfs_data is still empty when it fails), no call is ever
\* served by such an object, and an object that is returned has every table of
\* the feed stored, never a part of them.
C7_LoadFailureIsFatal ==
    /\ ConstructionFails => pc \in {"init", "failed"}
    /\ pc = "failed" => ConstructionFails /\ DOMAIN gtfs_data = {} /\ feed = None
    /\ result # NoCall => pc = "ready"
    /\ pc = "ready" => DOMAIN gtfs_data = LoadedNames

C7_Witness == pc = "failed" /\ world_path = "missing" /\ world_feed # ParserRaises

\* the table each plain accessor reads
AccessorTable ==
    [get_routes |-> "routes", get_stops |-> "stops", get_trips |-> "trips",
     get_stop_times |-> "stop_times", get_shapes |-> "shapes",
     get_calendar |-> "calendar", get_frequencies |-> "frequencies",
     get_transfers |-> "transfers"]

\* a feed lacks a table when it has no attribute of that name or the attribute
\* holds no table; a table with a header and no rows is present
Lacks(f) == world_feed[f] \in {NoAttr, None}

\* C8: when the parser succeeds and the feed lacks a table (required or
\* optional), construction still succeeds, the table has no slot in gtfs_data,
\* and each accessor of a lacking table returns an empty table, with or without
\* a filter argument.
C8_MissingTableIsEmpty ==
    /\ ~ConstructionFails => pc # "failed"
    /\ pc = "ready" =>
          /\ \A f \in TableNames : Lacks(f) => f \notin DOMAIN gtfs_data
          /\ \A op \in DOMAIN AccessorTable :
                (result.op = op /\ Lacks(AccessorTable[op]))
                    => ~result.raised /\ result.val = EmptyDataFrame

\* C10: after the constructor has returned and after any sequence of calls to
\* the accessors, the derived queries, validate_gtfs_data, get_gtfs_summary and
\* export_filtered_gtfs, the stored mapping is the one construction stored:
\* the same table names, and under each name the table of the feed, row by row.
C10_StoredTablesUnchanged ==
    pc = "ready" => gtfs_data = [f \in LoadedNames |-> world_feed[f]]

\* a filtered call has returned fewer rows than the stored table holds
C10_Witness ==
    /\ pc = "ready"
    /\ result.op = "get_trips"
    /\ result.args = <<"R1">>
    /\ ~result.raised
    /\ "trips" \in DOMAIN gtfs_data
    /\ IsDF(gtfs_data["trips"])
    /\ IsDF(result.val)
    /\ Len(result.val.rows) < Len(gtfs_data["trips"].rows)

-----------------------------------------------------------------------------
(* Read operations *)

Stored(f) == DictGet(gtfs_data, f, EmptyDataFrame)

RouteHasTrips(route_id) ==
    /\ IsDF(Stored("trips"))
    /\ \E i \in 1..Len(Stored("trips").rows) : Stored("trips").rows[i].route_id = route_id

\* C2: no read operation on a constructed processor raises, whatever tables were
\* loaded and whatever the argument; in particular get_route_stops returns an
\* empty result for a route that has trips when the stop_times or the stops
\* table was not loaded.
C2_ReadsNeverRaise ==
    /\ ~result.raised
    /\ (/\ result.op = "get_route_stops"
        /\ RouteHasTrips(result.args[1])
        /\ ("stop_times" \notin DOMAIN gtfs_data \/ "stops" \notin DOMAIN gtfs_data))
          => Empty(result.val)

\* the rows of t whose column col equals value, in stored order
RowsMatching(t, col, value) == SelectSeq(t.rows, LAMBDA r : r[col] = value)

FilterColumn ==
    [get_trips |-> "route_id", get_stop_times |-> "trip_id", get_shapes |-> "shape_id",
     get_calendar |-> "service_id", get_frequencies |-> "trip_id"]

\* C9: a filtered accessor called with a parameter, whatever its value, returns
\* exactly the stored rows whose column equals the parameter (get_transfers: the
\* rows matching every supplied parameter); called without one it returns the
\* whole stored table.
C9_FilterIsExact ==
    /\ \A op \in DOMAIN FilterColumn :
          (result.op = op /\ IsDF(Stored(AccessorTable[op]))) =>
              /\ ~result.raised
              /\ IF result.args[1] = NoArg
                 THEN result.val = Stored(AccessorTable[op])
                 ELSE result.val.rows =
                        RowsMatching(Stored(AccessorTable[op]), FilterColumn[op],
                                     result.args[1])
    /\ (result.op = "get_transfers" /\ IsDF(Stored("transfers"))) =>
          /\ ~result.raised
          /\ result.val.rows =
                SelectSeq(Stored("transfers").rows,
                          LAMBDA r : /\ result.args[1] # NoArg
                                          => r.from_stop_id = result.args[1]
                                     /\ result.args[2] # NoArg
                                          => r.to_stop_id = result.args[2])

-----------------------------------------------------------------------------
(* validate_gtfs_data: references *)

RequiredTablesPresent ==
    \A f \in Range(required_files) :
        f \in DOMAIN gtfs_data /\ IsDF(gtfs_data[f]) /\ ~Empty(gtfs_data[f])

MissingStops ==
    Column(Stored("stop_times"), "stop_id") \ Column(Stored("stops"), "stop_id")

Min(a, b) == IF a < b THEN a ELSE b

\* the result holds one error of the stop class, which shows missing stop ids
\* only: all of them, or ListLimit of them when more are missing
NamesMissingStops(errors) ==
    \E i \in 1..Len(errors) :
        /\ errors[i].class = "Stop times reference missing stops"
        /\ errors[i].shown \subseteq MissingStops
        /\ Cardinality(errors[i].shown) = Min(Cardinality(MissingStops), ListLimit)

\* C1: with all six required tables present and non-empty and a stop_time that
\* references a stop_id absent from stops, validate_gtfs_data returns
\* valid = False and an error that names the missing stop id (5 of them when
\* more than 5 are missing).
C1_MissingStopIsInvalid ==
    (/\ result.op = "validate_gtfs_data"
     /\ RequiredTablesPresent
     /\ "stop_id" \in Stored("stop_times").cols \cap Stored("stops").cols
     /\ MissingStops # {})
        => /\ ~result.raised
           /\ result.val.valid = FALSE
           /\ NamesMissingStops(result.val.errors)

-----------------------------------------------------------------------------
(* get_route_stops *)

TripsOfRoute(route_id) == RowsMatching(Stored("trips"), "route_id", route_id)

StopsVisitedBy(trip_ids) ==
    {Stored("stop_times").rows[i].stop_id :
        i \in {j \in 1..Len(Stored("stop_times").rows) :
                  Stored("stop_times").rows[j].trip_id \in trip_ids}}

\* C3: the result of get_route_stops(route_id) has no two rows with the same
\* stop_id, and its rows are the rows of the stops table whose stop_id is
\* visited by a stop_time of a trip of that route.
C3_RouteStopsDistinct ==
    (result.op = "get_route_stops" /\ ~result.raised) =>
        LET rows == result.val.rows
            visited == StopsVisitedBy(Range([i \in 1..Len(TripsOfRoute(result.args[1]))
                                       |-> TripsOfRoute(result.args[1])[i].trip_id]))
        IN  /\ \A i, j \in 1..Len(rows) : i # j => rows[i].stop_id # rows[j].stop_id
            /\ rows = SelectSeq(Stored("stops").rows, LAMBDA r : r.stop_id \in visited)

-----------------------------------------------------------------------------
(* get_service_dates *)

\* the day of the week by Sakamoto's rule, Monday = 0
MonthOffsets == <<0, 3, 2, 5, 0, 3, 5, 1, 4, 6, 2, 4>>

DayOfWeek(date) ==
    LET y == IF MonthOf(date) < 3 THEN YearOf(date) - 1 ELSE YearOf(date)
    IN  (y + y \div 4 - y \div 100 + y \div 400
           + MonthOffsets[MonthOf(date)] + DayOf(date) + 6) % 7

\* the years the calendars of FeedsWithCalendars lie in
CalendarYears == 2023..2024

CalendarDays ==
    {d \in {MkDate(y, m, dd) : y \in CalendarYears, m \in 1..12, dd \in 1..31} :
        ValidDate(d)}

FlaggedDays(service) == {w \in 0..6 : service[days_map[w + 1]] = 1}

StrictlyAscending(dates) ==
    \A i \in 1..(Len(dates) - 1) : dates[i] < dates[i + 1]

\* C4: get_service_dates(service_id) returns the empty sequence when no calendar
\* row matches service_id; otherwise it returns, strictly ascending, exactly the
\* dates from start_date to end_date inclusive whose weekday has its flag at 1
\* in the matching row.
C4_ServiceDates ==
    (result.op = "get_service_dates" /\ IsDF(Stored("calendar"))) =>
        LET matching == RowsMatching(Stored("calendar"), "service_id", result.args[1])
        IN  /\ ~result.raised
            /\ IF matching = <<>> THEN result.val = <<>>
               ELSE /\ StrictlyAscending(result.val)
                    /\ Range(result.val) =
                          {d \in CalendarDays :
                              /\ matching[1].start_date <= d
                              /\ d <= matching[1].end_date
                              /\ DayOfWeek(d) \in FlaggedDays(matching[1])}

-----------------------------------------------------------------------------
(* get_route_geometry *)

ShapePoints(shape_id) == RowsMatching(Stored("shapes"), "shape_id", shape_id)

\* the stored shape points with these coordinates, longitude first
PointsAt(coord) ==
    {r \in Range(Stored("shapes").rows) : <<r.shape_pt_lon, r.shape_pt_lat>> = coord}

IsLine(v) == v # None /\ v.kind = "LineString"

\* C5: get_route_geometry(route_id) returns none when the route has no trips,
\* when the first trip has no shape_id (null cell or no column) and when the
\* chosen shape has fewer than 2 points; otherwise it returns a line of at
\* least 2 points, each (longitude, latitude), by ascending shape_pt_sequence.
C5_RouteGeometry ==
    result.op = "get_route_geometry" =>
        LET trips == TripsOfRoute(result.args[1])
            no_shape == \/ trips = <<>>
                        \/ "shape_id" \notin Stored("trips").cols
                        \/ isna(trips[1].shape_id)
                        \/ Len(ShapePoints(trips[1].shape_id)) < 2
        IN  /\ ~result.raised
            /\ IF no_shape THEN result.val = None
               ELSE /\ IsLine(result.val)
                    /\ Len(result.val.coords) >= 2
                    /\ \A i \in 1..Len(result.val.coords) :
                          PointsAt(result.val.coords[i]) # {}
                    /\ \A i \in 1..(Len(result.val.coords) - 1) :
                          \E p \in PointsAt(result.val.coords[i]),
                             q \in PointsAt(result.val.coords[i + 1]) :
                              p.shape_pt_sequence <= q.shape_pt_sequence

\* C6: when get_route_geometry(route_id) returns a line for a route that has
\* trips, every point of the line is a point of the shape whose shape_id is the
\* shape_id of the route's first trip, whatever non-null value that is.
C6_GeometryFromOneShape ==
    (/\ result.op = "get_route_geometry"
     /\ ~result.raised
     /\ IsLine(result.val)
     /\ TripsOfRoute(result.args[1]) # <<>>) =>
        \A i \in 1..Len(result.val.coords) :
            \E p \in PointsAt(result.val.coords[i]) :
                p.shape_id = TripsOfRoute(result.args[1])[1].shape_id

-----------------------------------------------------------------------------
(* validate_gtfs_data: required tables *)

\* the required tables the feed lacks or holds without a row
RequiredLacking ==
    {f \in Range(required_files) :
        Lacks(f) \/ (IsDF(world_feed[f]) /\ Empty(world_feed[f]))}

ReferenceClasses ==
    <<"Trips reference missing routes", "Stop times reference missing stops",
      "Stop times reference missing trips">>

\* the identifiers of a reference class that the stored tables truly miss
MissingOf(class) ==
    CASE class = ReferenceClasses[1] ->
            Column(Stored("trips"), "route_id") \ Column(Stored("routes"), "route_id")
      [] class = ReferenceClasses[2] -> MissingStops
      [] class = ReferenceClasses[3] ->
            Column(Stored("stop_times"), "trip_id") \ Column(Stored("trips"), "trip_id")

FileErrors(errors) == SelectSeq(errors, LAMBDA e : e.class = "Missing required file")

ReferenceErrors(errors) == SelectSeq(errors, LAMBDA e : e.class \in Range(ReferenceClasses))

\* C11: validate_gtfs_data returns valid = False whenever a required table is
\* absent or empty, with one 'Missing required file' error for each such table;
\* file_counts maps each required table that is present to its number of rows;
\* and the consistency checks run exactly when all required tables are present
\* (their errors appear then, and never otherwise).
C11_RequiredTables ==
    result.op = "validate_gtfs_data" =>
        /\ ~result.raised
        /\ result.val.valid = (RequiredLacking = {})
        /\ LET named == FileErrors(result.val.errors)
           IN  /\ {named[i].file : i \in 1..Len(named)} = RequiredLacking
               /\ Len(named) = Cardinality(RequiredLacking)
        /\ result.val.file_counts =
              [f \in Range(required_files) \ RequiredLacking |-> Len(world_feed[f].rows)]
        /\ LET found == ReferenceErrors(result.val.errors)
           IN  IF RequiredLacking = {}
               THEN {found[i].class : i \in 1..Len(found)} =
                       {c \in Range(ReferenceClasses) : MissingOf(c) # {}}
               ELSE found = <<>>

-----------------------------------------------------------------------------
(* validate_gtfs_data: the three reference checks *)

\* the reference classes that the stored tables violate, in the order of the checks
ViolatedClasses == SelectSeq(ReferenceClasses, LAMBDA c : MissingOf(c) # {})

\* C12: when the consistency checks run, the result holds one error for each
\* violated reference class and no other, in the order route references, stop
\* references, trip references (a violation found by one check skips no later
\* check); each error shows truly missing identifiers of its class only, all of
\* them or ListLimit of them when more are missing.
C12_AllChecksInOrder ==
    (result.op = "validate_gtfs_data" /\ RequiredTablesPresent) =>
        /\ ~result.raised
        /\ LET errors == result.val.errors
           IN  /\ Len(errors) = Len(ViolatedClasses)
               /\ \A i \in 1..Len(errors) :
                     /\ errors[i].class = ViolatedClasses[i]
                     /\ errors[i].shown \subseteq MissingOf(errors[i].class)
                     /\ Cardinality(errors[i].shown) =
                           Min(Cardinality(MissingOf(errors[i].class)), ListLimit)

-----------------------------------------------------------------------------
(* calculate_route_stats *)

\* the values of a column among rows, missing cells left out
ValuesOf(rows, col) ==
    {rows[i][col] : i \in 1..Len(rows)}
        \ (IF col \in NumericCols THEN {NaNNumber} ELSE {NaN})

Flagged(rows, col) == Cardinality({i \in 1..Len(rows) : rows[i][col] = 1})

HasColumn(col) == col \in Stored("trips").cols

\* C13: calculate_route_stats(route_id) returns an empty structure when the
\* route has no trips; otherwise it counts the trips of the route, the distinct
\* stops they visit, their distinct service_id and direction_id values (1
\* direction when the column is absent) and the trips whose
\* wheelchair_accessible / bikes_allowed flag is 1 (0 when the column is absent).
C13_RouteStats ==
    (result.op = "calculate_route_stats" /\ IsDF(Stored("trips"))) =>
        LET trips == TripsOfRoute(result.args[1])
            stats == result.val
        IN  /\ ~result.raised
            /\ IF trips = <<>> THEN stats = EmptyDict
               ELSE /\ stats # EmptyDict
                    /\ stats.total_trips = Len(trips)
                    /\ stats.total_stops =
                          Cardinality(StopsVisitedBy(ValuesOf(trips, "trip_id"))
                                        \cap Column(Stored("stops"), "stop_id"))
                    /\ stats.service_ids = Cardinality(ValuesOf(trips, "service_id"))
                    /\ stats.directions =
                          IF HasColumn("direction_id")
                          THEN Cardinality(ValuesOf(trips, "direction_id")) ELSE 1
                    /\ stats.wheelchair_accessible_trips =
                          IF HasColumn("wheelchair_accessible")
                          THEN Flagged(trips, "wheelchair_accessible") ELSE 0
                    /\ stats.bikes_allowed_trips =
                          IF HasColumn("bikes_allowed")
                          THEN Flagged(trips, "bikes_allowed") ELSE 0

\* the shape_id cells of the trips of a route that name a stored shape
ShapesOfRoute(route_id) ==
    IF HasColumn("shape_id")
    THEN ValuesOf(TripsOfRoute(route_id), "shape_id") \cap Column(Stored("shapes"), "shape_id")
    ELSE {}

\* C14: for a route that has trips, has_shapes in the result of
\* calculate_route_stats(route_id) is true exactly when some trip of the route
\* has a shape_id of which the shapes table holds a point; it is false when no
\* trip of the route refers to a stored shape, whatever other routes have.
C14_HasShapes ==
    (/\ result.op = "calculate_route_stats"
     /\ ~result.raised
     /\ result.val # EmptyDict
     /\ TripsOfRoute(result.args[1]) # <<>>) =>
        (result.val.has_shapes <=> ShapesOfRoute(result.args[1]) # {})

-----------------------------------------------------------------------------
(* generate_synthetic_demand.py *)

NumRoutes == 20
NumStops == 50
FirstHour == 6
EndHour == 22
NumWeekdays == 7

PeakRate == 35
MiddayRate == 15
OffPeakRate == 5

ClipLow == 0
ClipHigh == 100

\* f"{i:03d}"
Pad3(i) ==
    IF i < 10 THEN "00" \o ToString(i)
    ELSE IF i < 100 THEN "0" \o ToString(i)
    ELSE ToString(i)

ROUTES == [i \in 1..NumRoutes |-> "R" \o Pad3(i)]
STOPS == [i \in 1..NumStops |-> "ST" \o Pad3(i)]
\* list(range(6, 22)), list(range(7))
HOURS == [i \in 1..(EndHour - FirstHour) |-> FirstHour + i - 1]
WEEKDAYS == [i \in 1..NumWeekdays |-> i - 1]

\* a clip that forgets the upper end
ClipBelow(x, lo, hi) == IF x < lo THEN lo ELSE x

\* np.clip(x, lo, hi)
Clip(x, lo, hi) == IF x < lo THEN lo ELSE IF x > hi THEN hi ELSE x

\* what np.random.poisson may return: any natural number; the draws tried are
\* the ends of the clipping range, a value inside it and values above it
MaxDraw == 101

Draws == {0, PeakRate, ClipHigh} \cup (ClipHigh + 1)..MaxDraw

\* the branches with the midday test written "10 <= hour < 15"
RateOfShortMidday(hour) ==
    IF (7 <= hour /\ hour <= 9) \/ (16 <= hour /\ hour <= 18) THEN PeakRate
    ELSE IF 10 <= hour /\ hour < 15 THEN MiddayRate
    ELSE OffPeakRate

\* the lam of the branch taken at lines 28-33
RateOf(hour) ==
    IF (7 <= hour /\ hour <= 9) \/ (16 <= hour /\ hour <= 18) THEN PeakRate
    ELSE IF 10 <= hour /\ hour <= 15 THEN MiddayRate
    ELSE OffPeakRate

\* the loop variables after one more pass of the innermost loop: positions in
\* ROUTES, STOPS, HOURS, WEEKDAYS, the innermost first to move; "write" once
\* the four loops are exhausted
Advance(g) ==
    IF g.weekday < Len(WEEKDAYS) THEN [g EXCEPT !.weekday = @ + 1]
    ELSE IF g.hour < Len(HOURS) THEN [g EXCEPT !.weekday = 1, !.hour = @ + 1]
    ELSE IF g.stop < Len(STOPS) THEN [g EXCEPT !.weekday = 1, !.hour = 1, !.stop = @ + 1]
    ELSE IF g.route < Len(ROUTES)
         THEN [g EXCEPT !.weekday = 1, !.hour = 1, !.stop = 1, !.route = @ + 1]
    ELSE [g EXCEPT !.pc = "write"]

NoRow == [kind |-> "none"]

\* lines 13-22: the seed, the four lists, data = [].  The list data is only
\* appended to: it is kept as its length and its last element.
GenStart ==
    /\ gen = NotStarted
    /\ gen' = [pc |-> "loop", route |-> 1, stop |-> 1, hour |-> 1, weekday |-> 1,
               data_len |-> 0, last |-> NoRow, base_demand |-> 0, lam |-> 0,
               written |-> 0]
    /\ UNCHANGED <<world_path, world_feed, pc, feed, gtfs_data, result, threads, sim>>

\* one pass of the innermost loop, lines 27-42
GenAppend ==
    /\ gen.pc = "loop"
    /\ \E base_demand \in Draws :
          LET hour == HOURS[gen.hour]
              passenger_count == Clip(base_demand, ClipLow, ClipHigh)
              row == [route_id |-> ROUTES[gen.route], stop_id |-> STOPS[gen.stop],
                      hour |-> hour, weekday |-> WEEKDAYS[gen.weekday],
                      passenger_count |-> passenger_count]
          IN  gen' = Advance([gen EXCEPT !.data_len = @ + 1, !.last = row,
                                         !.base_demand = base_demand,
                                         !.lam = RateOf(hour)])
    /\ UNCHANGED <<world_path, world_feed, pc, feed, gtfs_data, result, threads, sim>>

\* lines 45-53: df = pd.DataFrame(data); df.to_csv(output_file, index=False)
GenWrite ==
    /\ gen.pc = "write"
    /\ gen' = [gen EXCEPT !.pc = "done", !.written = gen.data_len]
    /\ UNCHANGED <<world_path, world_feed, pc, feed, gtfs_data, result, threads, sim>>

NextGenerate == GenStart \/ GenAppend \/ GenWrite

\* no processor is built while a script runs
InitScripts ==
    /\ world_path = "missing"
    /\ world_feed = ParserRaises
    /\ pc = "init"
    /\ feed = None
    /\ gtfs_data = <<>>
    /\ result = NoCall
    /\ threads = <<>>
    /\ gen = NotStarted
    /\ sim = NotStarted

SpecGenerate == InitScripts /\ [][NextGenerate]_vars

-----------------------------------------------------------------------------
(* simulate_demand.py *)

\* A string is the sequence of its characters; a missing arrival_time cell (a
\* float nan, not a string) is MissingTime, a missing hour is NaNNumber.
MissingTime == <<NaN>>

\* A character a TLA+ string cannot hold is written by name: a white-space
\* character by its code point ("U+000B"), and a decimal digit outside ASCII
\* (Unicode category Nd, such as U+0663 or U+FF17) by its value, OtherDigit[v]:
\* int() reads such a digit by its decimal value alone.
OtherDigit == [v \in 0..9 |-> "<Nd " \o ToString(v) \o ">"]

AsciiDigit == [v \in 0..9 |-> ToString(v)]

IsDigit(c) == \E v \in 0..9 : c \in {AsciiDigit[v], OtherDigit[v]}

DigitValue(c) == CHOOSE v \in 0..9 : c \in {AsciiDigit[v], OtherDigit[v]}

\* time_str.split(":")[0]: the characters before the first colon, or all of them
SplitHead(str) ==
    LET colons == {k \in 1..Len(str) : str[k] = ":"}
    IN  IF colons = {} THEN str
        ELSE SubSeq(str, 1, (CHOOSE k \in colons : \A j \in colons : k <= j) - 1)

\* the characters int() ignores around the number: the ASCII white space of C
\* (blank, \t, \n, \v, \f, \r) and the white space outside ASCII.  The
\* separators U+001C to U+001F, white space to str.isspace(), are not ignored.
Whitespace ==
    {" ", "\t", "\n", "\r", "\f", "U+000B",
     "U+0085", "U+00A0", "U+1680", "U+2000", "U+2001", "U+2002", "U+2003", "U+2004",
     "U+2005", "U+2006", "U+2007", "U+2008", "U+2009", "U+200A", "U+2028", "U+2029",
     "U+202F", "U+205F", "U+3000"}

\* the white space int() skips before and after the number
RECURSIVE StripLeft(_)
StripLeft(str) ==
    IF str # <<>> /\ Head(str) \in Whitespace THEN StripLeft(Tail(str)) ELSE str

RECURSIVE StripRight(_)
StripRight(str) ==
    IF str # <<>> /\ str[Len(str)] \in Whitespace
    THEN StripRight(SubSeq(str, 1, Len(str) - 1)) ELSE str

RECURSIVE DecimalValue(_)
DecimalValue(digits) ==
    IF digits = <<>> THEN 0
    ELSE 10 * DecimalValue(SubSeq(digits, 1, Len(digits) - 1))
           + DigitValue(digits[Len(digits)])

\* decimal digits, single underscores allowed between two digits
IsDigitString(body) ==
    /\ body # <<>>
    /\ IsDigit(body[1]) /\ IsDigit(body[Len(body)])
    /\ \A k \in 1..Len(body) : IsDigit(body[k]) \/ body[k] = "_"
    /\ \A k \in 1..(Len(body) - 1) : ~(body[k] = "_" /\ body[k + 1] = "_")

\* the most digits int() converts: sys.get_int_max_str_digits(), as CPython
\* sets it by default
MaxStrDigits == 4300

\* int(s) for a string s: white space stripped, an optional sign, then decimal
\* digits of any script (underscores between digits ignored), at most
\* MaxStrDigits of them, leading zeros counted; anything else raises ValueError
IntOf(str) ==
    LET body == StripRight(StripLeft(str))
        signed == body # <<>> /\ Head(body) \in {"+", "-"}
        digits == IF signed THEN Tail(body) ELSE body
        value == DecimalValue(SelectSeq(digits, IsDigit))
    IN  IF ~IsDigitString(digits) \/ Len(SelectSeq(digits, IsDigit)) > MaxStrDigits
        THEN Raise("ValueError")
        ELSE Ok(IF signed /\ Head(body) = "-" THEN 0 - value ELSE value)

\* parse_hour without the "% 24"
parse_hour_unwrapped(time_str) ==
    IF time_str = MissingTime THEN NaNNumber
    ELSE LET field == IntOf(SplitHead(time_str))
         IN  IF field.raised THEN NaNNumber ELSE field.val

\* parse_hour, lines 23-28: the bare except turns every exception into np.nan
parse_hour(time_str) ==
    IF time_str = MissingTime THEN NaNNumber
    ELSE LET field == IntOf(SplitHead(time_str))
         IN  IF field.raised THEN NaNNumber ELSE field.val % 24

\* Series.apply(f) and DataFrame.dropna(subset=[col]) on a sequence of rows
WithHour(rows) ==
    [k \in 1..Len(rows) |->
        [route_id |-> rows[k].route_id, stop_id |-> rows[k].stop_id,
         arrival_time |-> rows[k].arrival_time,
         hour |-> parse_hour(rows[k].arrival_time)]]

dropna(rows, col) == SelectSeq(rows, LAMBDA r : r[col] # NaNNumber)

\* np.random.randint(0, 7): the weekdays tried
WeekdayDraws == {0, 6}

SimRate == 20

MaxSimRows == 2

\* arrival_time cells: plain and one-digit hours, times of the next service day,
\* text, an empty field, a sign, a blank, a tab, a fraction, digits grouped with
\* one underscore and with two, a vertical tab, digits of another script, a
\* file separator, an hour of one digit more than int() converts (a missing
\* cell is added below)
TimeStrings ==
    {<<"0", "7", ":", "1", "5", ":", "0", "0">>, <<"7", ":", "0", "5", ":", "0", "0">>,
     <<"2", "4", ":", "0", "0", ":", "0", "0">>, <<"2", "5", ":", "1", "0", ":", "0", "0">>,
     <<"4", "9", ":", "0", "0", ":", "0", "0">>,
     <<"a", "b", ":", "0", "0">>, <<":", "3", "0">>,
     <<"-", "1", ":", "0", "0">>, <<" ", "8", ":", "0", "0">>, <<"\t", "8", ":", "0", "0">>,
     <<"7", ".", "5", ":", "0", "0">>,
     <<"1", "_", "0", ":", "0", "0">>, <<"1", "_", "_", "0", ":", "0", "0">>,
     <<"U+000B", "8", ":", "0", "0">>, <<OtherDigit[2], OtherDigit[7], ":", "0", "0">>,
     <<"U+001C", "8", ":", "0", "0">>,
     [k \in 1..(MaxStrDigits + 1) |-> "1"] \o <<":", "0", "0">>}

JoinedRows ==
    SeqsUpTo({[route_id |-> "R1", stop_id |-> "S1", arrival_time |-> t] :
                 t \in TimeStrings \cup {MissingTime}}, MaxSimRows)

\* lines 14-20: the tables read and merged
SimStart ==
    /\ sim = NotStarted
    /\ \E rows \in JoinedRows :
          sim' = [pc |-> "parse", joined |-> rows, stop_times |-> <<>>,
                  synthetic_data |-> <<>>, written |-> <<>>]
    /\ UNCHANGED <<world_path, world_feed, pc, feed, gtfs_data, result, threads, gen>>

\* line 30
SimParse ==
    /\ sim.pc = "parse"
    /\ sim' = [sim EXCEPT !.pc = "dropna", !.stop_times = WithHour(sim.joined)]
    /\ UNCHANGED <<world_path, world_feed, pc, feed, gtfs_data, result, threads, gen>>

\* line 31
SimDropna ==
    /\ sim.pc = "dropna"
    /\ sim' = [sim EXCEPT !.pc = "draw", !.stop_times = dropna(sim.stop_times, "hour")]
    /\ UNCHANGED <<world_path, world_feed, pc, feed, gtfs_data, result, threads, gen>>

\* lines 36-38: the three columns copied, a weekday and a Poisson draw per row
SimDraw ==
    /\ sim.pc = "draw"
    /\ \E days \in [1..Len(sim.stop_times) -> WeekdayDraws],
          counts \in [1..Len(sim.stop_times) -> Draws] :
          sim' = [sim EXCEPT
                    !.pc = "clip",
                    !.synthetic_data =
                        [k \in 1..Len(sim.stop_times) |->
                            [route_id |-> sim.stop_times[k].route_id,
                             stop_id |-> sim.stop_times[k].stop_id,
                             hour |-> sim.stop_times[k].hour,
                             weekday |-> days[k],
                             passenger_count |-> counts[k]]]]
    /\ UNCHANGED <<world_path, world_feed, pc, feed, gtfs_data, result, threads, gen>>

\* line 41: Series.clip(0, 100)
SimClip ==
    /\ sim.pc = "clip"
    /\ sim' = [sim EXCEPT
                 !.pc = "write",
                 !.synthetic_data =
                     [k \in 1..Len(sim.synthetic_data) |->
                         [sim.synthetic_data[k] EXCEPT
                             !.passenger_count = Clip(@, ClipLow, ClipHigh)]]]
    /\ UNCHANGED <<world_path, world_feed, pc, feed, gtfs_data, result, threads, gen>>

\* line 45
SimWrite ==
    /\ sim.pc = "write"
    /\ sim' = [sim EXCEPT !.pc = "done", !.written = sim.synthetic_data]
    /\ UNCHANGED <<world_path, world_feed, pc, feed, gtfs_data, result, threads, gen>>

NextSimulate == SimStart \/ SimParse \/ SimDropna \/ SimDraw \/ SimClip \/ SimWrite

SpecSimulate == InitScripts /\ [][NextSimulate]_vars

\* either script, run on its own
NextScripts ==
    \/ sim = NotStarted /\ NextGenerate
    \/ gen = NotStarted /\ NextSimulate

SpecScripts == InitScripts /\ [][NextScripts]_vars

-----------------------------------------------------------------------------
(* The synthetic demand scripts *)

\* C15: every row written by either generator has a passenger_count that is an
\* integer from 0 to 100: the draw itself when it is at most 100, and 100 when
\* the draw is above 100.
C15_PassengerCountClipped ==
    /\ (gen.pc \in {"loop", "write", "done"} /\ gen.data_len > 0) =>
          /\ gen.last.passenger_count \in 0..100
          /\ gen.last.passenger_count =
                (IF gen.base_demand > 100 THEN 100 ELSE gen.base_demand)
    /\ sim.pc \in {"write", "done"} =>
          \A k \in 1..Len(sim.synthetic_data) :
              sim.synthetic_data[k].passenger_count \in 0..100
    /\ sim.pc = "done" =>
          \A k \in 1..Len(sim.written) : sim.written[k].passenger_count \in 0..100

\* a draw above 100 written as 100
C15_Witness ==
    /\ gen.pc = "loop"
    /\ gen.data_len > 0
    /\ gen.base_demand > 100
    /\ gen.last.passenger_count = 100

-----------------------------------------------------------------------------
(* Read calls issued by several threads.  A call is not atomic: each
   self.gtfs_data.get(...) it makes is a step of its own, so the calls of the
   other threads may run between two reads of one call. *)

NumThreads == 2

\* the call a thread makes: the method and its arguments
ConcurrentCalls ==
    {<<"get_trips", <<NoArg>>>>,
     <<"get_trips", <<"R1">>>>,
     <<"get_stop_times", <<"T1">>>>,
     <<"get_route_stops", <<"R1">>>>,
     <<"get_route_geometry", <<"R1">>>>}

\* the tables a call looks up in self.gtfs_data, in the order of its code (a
\* call that returns early makes a prefix of these lookups)
TablesRead(op) ==
    CASE op = "get_trips" -> <<"trips">>
      [] op = "get_stop_times" -> <<"stop_times">>
      [] op = "get_route_stops" -> <<"trips", "stop_times", "stops">>
      [] op = "get_route_geometry" -> <<"trips", "shapes">>

\* the method `op` on the tables `data`
Apply(op, args, data) ==
    CASE op = "get_trips" -> get_trips(data, args[1])
      [] op = "get_stop_times" -> get_stop_times(data, args[1])
      [] op = "get_route_stops" -> get_route_stops(data, args[1])
      [] op = "get_route_geometry" -> get_route_geometry(data, args[1])

\* a thread that is not inside a call
IdleThread == [pc |-> "idle"]

\* the thread enters a method of the constructed object
ThreadBegin(t) ==
    /\ pc = "ready"
    /\ threads[t].pc = "idle"
    /\ \E call \in ConcurrentCalls :
          threads' = [threads EXCEPT ![t] =
              [pc |-> "reading", op |-> call[1], args |-> call[2],
               reads |-> TablesRead(call[1]), seen |-> <<>>,
               alone |-> Apply(call[1], call[2], gtfs_data),
               during |-> {u \in DOMAIN threads : threads[u].pc = "reading"}]]
    /\ UNCHANGED <<world_path, world_feed, pc, feed, gtfs_data, result, gen, sim>>

\* one self.gtfs_data.get(name, pd.DataFrame())
ThreadRead(t) ==
    /\ threads[t].pc = "reading"
    /\ threads[t].reads # <<>>
    /\ LET name == Head(threads[t].reads)
       IN  threads' = [threads EXCEPT
              ![t].reads = Tail(@),
              ![t].seen = IF name \in DOMAIN gtfs_data
                          THEN (name :> gtfs_data[name]) @@ @
                          ELSE @]
    /\ UNCHANGED <<world_path, world_feed, pc, feed, gtfs_data, result, gen, sim>>

\* the call returns, or raises, from what it has looked up
ThreadSettle(t, stored) ==
    /\ threads[t].pc = "reading"
    /\ threads[t].reads = <<>>
    /\ threads' = [threads EXCEPT ![t] =
          [pc |-> "returned", op |-> threads[t].op, args |-> threads[t].args,
           alone |-> threads[t].alone, during |-> threads[t].during,
           result |-> Apply(threads[t].op, threads[t].args, threads[t].seen)]]
    /\ gtfs_data' = stored
    /\ UNCHANGED <<world_path, world_feed, pc, feed, result, gen, sim>>

\* get_trips keeping the filtered table: self.gtfs_data['trips'] = trips
ThreadFinishInPlace(t) ==
    LET r == Apply(threads[t].op, threads[t].args, threads[t].seen)
    IN  ThreadSettle(t, IF threads[t].op = "get_trips" /\ ~r.raised
                        THEN ("trips" :> r.val) @@ gtfs_data
                        ELSE gtfs_data)

ThreadFinish(t) == ThreadSettle(t, gtfs_data)

\* the caller takes the result; the thread may call again
ThreadNext(t) ==
    /\ threads[t].pc = "returned"
    /\ threads' = [threads EXCEPT ![t] = IdleThread]
    /\ UNCHANGED <<world_path, world_feed, pc, feed, gtfs_data, result, gen, sim>>

NextThreads ==
    \/ ReadFeed
    \/ LoadRequiredFiles
    \/ LoadOptionalFiles
    \/ \E t \in DOMAIN threads : ThreadBegin(t)
    \/ \E t \in DOMAIN threads : ThreadRead(t)
    \/ \E t \in DOMAIN threads : ThreadFinish(t)
    \/ \E t \in DOMAIN threads : ThreadNext(t)

\* the sample feed whole, with a required table the parser left as None, and
\* with a table it has no attribute for
ThreadFeeds ==
    {SampleFeed, FeedWith("trips" :> None), FeedWith("shapes" :> NoAttr)}

InitThreads ==
    /\ world_path \in {"dir", "missing"}
    /\ world_feed \in ThreadFeeds
    /\ pc = "init"
    /\ feed = None
    /\ gtfs_data = <<>>
    /\ result = NoCall
    /\ threads = [t \in 1..NumThreads |-> IdleThread]
    /\ gen = NotStarted
    /\ sim = NotStarted

SpecThreads == InitThreads /\ [][NextThreads]_vars

-----------------------------------------------------------------------------
(* load_gtfs_data called again on the constructed object, while other callers
   read.  The object was built from the sample feed; afterwards the files at
   the path change, and each test of the path, the parse, the assignment of
   self.feed and, for every table name, the test for the attribute, its fetch
   and its store is a step of its own: the steps of another caller of
   load_gtfs_data and the lookups of the readers fall between them. *)

\* what the path may hold at a later call: a feed with one trip and without
\* shapes, or files the parser rejects
ReloadFeeds ==
    {[f \in TableNames |->
        IF f = "trips" THEN DF(TripCols, <<TripRow("T9", "R2", "WK", NaN)>>)
        ELSE IF f = "shapes" THEN NoAttr
        ELSE SampleFeed[f]],
     ParserRaises}

PathKinds == {"zip", "dir", "file", "missing"}

\* the files at the path are replaced, removed or put back by someone else;
\* a path that is no zip file and no directory holds nothing the parser reads
DiskChanges ==
    /\ \E path \in PathKinds, disk \in ReloadFeeds \cup {SampleFeed} :
          /\ world_path' = path
          /\ world_feed' = IF PathAccepted(path) THEN disk ELSE ParserRaises
    /\ UNCHANGED <<pc, feed, gtfs_data, result, threads, gen, sim>>

\* line 32: os.path.isfile(self.gtfs_path) and self.gtfs_path.endswith('.zip')
LoadGtfsDataTestFile(t) ==
    /\ pc = "ready"
    /\ threads[t].pc = "idle"
    /\ threads' = [threads EXCEPT ![t] =
                      [pc |-> IF world_path = "zip" THEN "read_feed" ELSE "test_dir"]]
    /\ UNCHANGED <<world_path, world_feed, pc, feed, gtfs_data, result, gen, sim>>

\* lines 35-39: os.path.isdir(self.gtfs_path), else ValueError, which the except
\* clause logs and raises again
LoadGtfsDataTestDir(t) ==
    /\ threads[t].pc = "test_dir"
    /\ IF world_path = "dir"
       THEN /\ threads' = [threads EXCEPT ![t] = [pc |-> "read_feed"]]
            /\ result' = result
       ELSE /\ threads' = [threads EXCEPT ![t] = IdleThread]
            /\ result' = Call("load_gtfs_data", <<>>, Raise("ValueError"))
    /\ UNCHANGED <<world_path, world_feed, pc, feed, gtfs_data, gen, sim>>

\* lines 34 and 37: gk.read_feed(...) parses what the path holds now; the
\* parser's exception (written RuntimeError) is logged and raised again, and
\* the object keeps its feed and its tables
LoadGtfsDataRead(t) ==
    /\ threads[t].pc = "read_feed"
    /\ IF PathAccepted(world_path) /\ world_feed # ParserRaises
       THEN /\ threads' = [threads EXCEPT ![t] = [pc |-> "assign", parsed |-> world_feed]]
            /\ result' = result
       ELSE /\ threads' = [threads EXCEPT ![t] = IdleThread]
            /\ result' = Call("load_gtfs_data", <<>>, Raise("RuntimeError"))
    /\ UNCHANGED <<world_path, world_feed, pc, feed, gtfs_data, gen, sim>>

\* lines 34 and 37: self.feed = the feed parsed
LoadGtfsDataAssign(t) ==
    /\ threads[t].pc = "assign"
    /\ feed' = threads[t].parsed
    /\ threads' = [threads EXCEPT ![t] =
                      [pc |-> "hasattr", files |-> required_files \o optional_files]]
    /\ UNCHANGED <<world_path, world_feed, pc, gtfs_data, result, gen, sim>>

\* lines 56 and 67: hasattr(self.feed, file_name) on self.feed as it is now;
\* without the attribute the name is logged and the loop goes on
LoadGtfsDataHasAttr(t) ==
    /\ threads[t].pc = "hasattr"
    /\ threads[t].files # <<>>
    /\ threads' = [threads EXCEPT ![t] =
                      IF hasattr(feed, Head(threads[t].files))
                      THEN [pc |-> "getattr", files |-> threads[t].files]
                      ELSE [pc |-> "hasattr", files |-> Tail(threads[t].files)]]
    /\ UNCHANGED <<world_path, world_feed, pc, feed, gtfs_data, result, gen, sim>>

\* lines 57 and 68: getattr(self.feed, file_name) on self.feed as it is now,
\* which another caller may have replaced since the test: AttributeError when
\* the attribute is gone, logged and raised again by lines 47-49, the names
\* left unstored
LoadGtfsDataGetAttr(t) ==
    /\ threads[t].pc = "getattr"
    /\ IF hasattr(feed, Head(threads[t].files))
       THEN /\ threads' = [threads EXCEPT ![t] =
                              [pc |-> "setitem", files |-> threads[t].files,
                               table |-> feed[Head(threads[t].files)]]]
            /\ result' = result
       ELSE /\ threads' = [threads EXCEPT ![t] = IdleThread]
            /\ result' = Call("load_gtfs_data", <<>>, Raise("AttributeError"))
    /\ UNCHANGED <<world_path, world_feed, pc, feed, gtfs_data, gen, sim>>

\* lines 57 and 68: self.gtfs_data[file_name] = the table fetched
LoadGtfsDataStore(t) ==
    /\ threads[t].pc = "setitem"
    /\ gtfs_data' = (Head(threads[t].files) :> threads[t].table) @@ gtfs_data
    /\ threads' = [threads EXCEPT ![t] =
                      [pc |-> "hasattr", files |-> Tail(threads[t].files)]]
    /\ UNCHANGED <<world_path, world_feed, pc, feed, result, gen, sim>>

\* line 45: load_gtfs_data returns
LoadGtfsDataReturn(t) ==
    /\ threads[t].pc = "hasattr"
    /\ threads[t].files = <<>>
    /\ threads' = [threads EXCEPT ![t] = IdleThread]
    /\ result' = Call("load_gtfs_data", <<>>, Ok(None))
    /\ UNCHANGED <<world_path, world_feed, pc, feed, gtfs_data, gen, sim>>

NextReload ==
    \/ DiskChanges
    \/ \E t \in DOMAIN threads : LoadGtfsDataTestFile(t)
    \/ \E t \in DOMAIN threads : LoadGtfsDataTestDir(t)
    \/ \E t \in DOMAIN threads : LoadGtfsDataRead(t)
    \/ \E t \in DOMAIN threads : LoadGtfsDataAssign(t)
    \/ \E t \in DOMAIN threads : LoadGtfsDataHasAttr(t)
    \/ \E t \in DOMAIN threads : LoadGtfsDataGetAttr(t)
    \/ \E t \in DOMAIN threads : LoadGtfsDataStore(t)
    \/ \E t \in DOMAIN threads : LoadGtfsDataReturn(t)
    \/ \E t \in DOMAIN threads : ThreadBegin(t)
    \/ \E t \in DOMAIN threads : ThreadRead(t)
    \/ \E t \in DOMAIN threads : ThreadFinish(t)
    \/ \E t \in DOMAIN threads : ThreadNext(t)

\* the object as its constructor returned it, built from a directory that
\* held the sample feed
InitReload ==
    /\ world_path = "dir"
    /\ world_feed = SampleFeed
    /\ pc = "ready"
    /\ feed = SampleFeed
    /\ gtfs_data = LoadFiles(<<>>, SampleFeed, required_files \o optional_files)
    /\ result = NoCall
    /\ threads = [t \in 1..2 |-> IdleThread]
    /\ gen = NotStarted
    /\ sim = NotStarted

SpecReload == InitReload /\ [][NextReload]_vars

\* C16: once the constructor has returned, a read call made while other
\* threads make read calls returns (or raises) what the same call on the
\* stored tables gives when nothing else runs: no call sees an effect of
\* another.
C16_ConcurrentReads ==
    \A t \in DOMAIN threads :
        threads[t].pc = "returned" =>
            /\ threads[t].result.raised = threads[t].alone.raised
            /\ threads[t].result.val = threads[t].alone.val

\* a three-table query has returned its stops; it began while another call
\* was under way, and a further call is now between two of its lookups
C16_Witness ==
    \E t \in DOMAIN threads, u \in DOMAIN threads :
        /\ threads[t].pc = "returned"
        /\ threads[t].op = "get_route_stops"
        /\ ~threads[t].result.raised
        /\ ~Empty(threads[t].result.val)
        /\ threads[t].during # {}
        /\ threads[u].pc = "reading"
        /\ threads[u].seen # <<>>
        /\ threads[u].reads # <<>>


-----------------------------------------------------------------------------
(* What generate_synthetic_demand.py is expected to write *)

\* the route and stop names, written out
SyntheticRouteNames ==
    <<"R001", "R002", "R003", "R004", "R005", "R006", "R007", "R008",
      "R009", "R010", "R011", "R012", "R013", "R014", "R015", "R016",
      "R017", "R018", "R019", "R020">>

SyntheticStopNames ==
    <<"ST001", "ST002", "ST003", "ST004", "ST005", "ST006", "ST007", "ST008",
      "ST009", "ST010", "ST011", "ST012", "ST013", "ST014", "ST015", "ST016",
      "ST017", "ST018", "ST019", "ST020", "ST021", "ST022", "ST023", "ST024",
      "ST025", "ST026", "ST027", "ST028", "ST029", "ST030", "ST031", "ST032",
      "ST033", "ST034", "ST035", "ST036", "ST037", "ST038", "ST039", "ST040",
      "ST041", "ST042", "ST043", "ST044", "ST045", "ST046", "ST047", "ST048",
      "ST049", "ST050">>

PeakHours == {7, 8, 9, 16, 17, 18}
MiddayHours == {10, 11, 12, 13, 14, 15}
OtherHours == {6, 19, 20, 21}

\* the n-th (route, stop, hour, weekday) combination, n from 1, the weekday
\* moving fastest and the route slowest
Combination(n) ==
    LET k == n - 1
    IN  [route_id |-> SyntheticRouteNames[(k \div (7 * 16 * 50)) + 1],
         stop_id |-> SyntheticStopNames[((k \div (7 * 16)) % 50) + 1],
         hour |-> 6 + ((k \div 7) % 16),
         weekday |-> k % 7]

TotalRows == 20 * 50 * 16 * 7

\* C17: the n-th row appended is the n-th combination of the 20 routes, 50
\* stops, hours 6..21 and weekdays 0..6, so no combination is repeated or
\* skipped; the rate of its draw is the peak rate in hours 7-9 and 16-18, a
\* strictly lower rate in hours 10-15 and a strictly lower one again in the
\* other hours; the file written holds all 112000 rows.
C17_OneRowPerCombination ==
    /\ gen # NotStarted =>
          /\ gen.data_len <= TotalRows
          /\ gen.data_len > 0 =>
                LET expected == Combination(gen.data_len)
                IN  /\ gen.last.route_id = expected.route_id
                    /\ gen.last.stop_id = expected.stop_id
                    /\ gen.last.hour = expected.hour
                    /\ gen.last.weekday = expected.weekday
                    /\ gen.last.hour \in PeakHours => gen.lam = PeakRate
                    /\ gen.last.hour \in MiddayHours =>
                          gen.lam = MiddayRate /\ gen.lam < PeakRate
                    /\ gen.last.hour \in OtherHours =>
                          gen.lam = OffPeakRate /\ gen.lam < MiddayRate
          /\ gen.pc \in {"write", "done"} => gen.data_len = TotalRows
          /\ gen.pc = "done" => gen.written = TotalRows

\* the script has finished: the last row written is (R020, ST050, 21, 6)
C17_Witness ==
    /\ gen # NotStarted
    /\ gen.pc = "done"
    /\ gen.written = 112000
    /\ gen.last.route_id = "R020" /\ gen.last.stop_id = "ST050"
    /\ gen.last.hour = 21 /\ gen.last.weekday = 6


-----------------------------------------------------------------------------
(* What simulate_demand.py is expected to keep *)

Unparseable == 0 - 2

\* the hour expected of each arrival_time tried, worked out by hand: the
\* integer before the first colon (as int() reads it: surrounding white space,
\* an underscore between digits and digits of any script allowed; the
\* separators U+001C to U+001F are no white space to it, and more than 4300
\* digits are no integer to it) modulo 24, Unparseable where there is none
ExpectedHour(time_str) ==
    CASE time_str = <<"0", "7", ":", "1", "5", ":", "0", "0">> -> 7
      [] time_str = <<"7", ":", "0", "5", ":", "0", "0">> -> 7
      [] time_str = <<"2", "4", ":", "0", "0", ":", "0", "0">> -> 0
      [] time_str = <<"2", "5", ":", "1", "0", ":", "0", "0">> -> 1
      [] time_str = <<"4", "9", ":", "0", "0", ":", "0", "0">> -> 1
      [] time_str = <<"-", "1", ":", "0", "0">> -> 23
      [] time_str = <<" ", "8", ":", "0", "0">> -> 8
      [] time_str = <<"\t", "8", ":", "0", "0">> -> 8
      [] time_str = <<"1", "_", "0", ":", "0", "0">> -> 10
      [] time_str = <<"U+000B", "8", ":", "0", "0">> -> 8
      [] time_str = <<"<Nd 2>", "<Nd 7>", ":", "0", "0">> -> 3
      [] OTHER -> Unparseable

\* the joined rows with a parseable arrival_time, in their order
Parseable(rows) ==
    SelectSeq(rows, LAMBDA r : ExpectedHour(r.arrival_time) # Unparseable)

\* C18: a joined row whose arrival_time is missing or has nothing int() reads
\* as an integer before its first colon is dropped and nothing is raised (the script runs on to its
\* output); the rows kept are the other rows, each with an hour in 0..23 equal
\* to that integer modulo 24, and the output has one row per kept row.
C18_UnparseableRowsDropped ==
    sim # NotStarted =>
        /\ sim.pc \in {"draw", "clip", "write", "done"} =>
              LET kept == Parseable(sim.joined)
              IN  /\ Len(sim.stop_times) = Len(kept)
                  /\ \A k \in 1..Len(kept) :
                        /\ sim.stop_times[k].arrival_time = kept[k].arrival_time
                        /\ sim.stop_times[k].hour = ExpectedHour(kept[k].arrival_time)
                        /\ sim.stop_times[k].hour \in 0..23
        /\ sim.pc \in {"clip", "write", "done"} =>
              /\ Len(sim.synthetic_data) = Len(sim.stop_times)
              /\ \A k \in 1..Len(sim.stop_times) :
                    sim.synthetic_data[k].hour = sim.stop_times[k].hour
        /\ sim.pc = "done" => Len(sim.written) = Len(sim.stop_times)

\* the script has written its output for two joined rows: one with no
\* integer before the colon, dropped, and one at 25:10:00, kept with hour 1
C18_Witness ==
    /\ sim # NotStarted
    /\ sim.pc = "done"
    /\ Len(sim.joined) = 2
    /\ \E k \in 1..2 : sim.joined[k].arrival_time = <<"a", "b", ":", "0", "0">>
    /\ \E k \in 1..2 :
          sim.joined[k].arrival_time = <<"2", "5", ":", "1", "0", ":", "0", "0">>
    /\ Len(sim.written) = 1
    /\ sim.written[1].hour = 1

====
